---- MODULE Spec2Model ----
(***************************************************************************)
(* A model of the PeeringDB client of api.go: the client configuration     *)
(* built by NewAPI, and the calls fetch, fetchByID and the accessors made  *)
(* on it.  A call is split at its two blocking points: the transport call  *)
(* client.Do and the reading of the response body.                         *)
(***************************************************************************)
EXTENDS Integers, Sequences, FiniteSets, TLC

VARIABLES opts, nopt, apc, api, pc, call, cancelled, nreq, req, resp, closes, fret, ret

vars == <<opts, nopt, apc, api, pc, call, cancelled, nreq, req, resp, closes, fret, ret>>

----------------------------------------------------------------------------
(* Bounds of the model. *)

\* the longest option list handed to NewAPI
MaxOpts == 2
\* the longest data array of a response envelope
MaxData == 2
\* the largest identifier handed to fetchByID (the smallest is -MaxID)
MaxID == 1

\* the callers of the client: goroutines sharing one *API
Calls == {1, 2}
\* the caller of the runs in which calls follow one another
Solo == {1}

----------------------------------------------------------------------------
(* Constants of the program. *)

Version == "0.1.0"
baseAPI == "https://www.peeringdb.com/api/"
networkNamespace == "net"
organizationNamespace == "org"
Namespaces == {networkNamespace, organizationNamespace}

StatusOK == 200
StatusTooManyRequests == 429

----------------------------------------------------------------------------
(* Response bodies.  A body is the byte stream the client reads: kind is   *)
(* the shape of its text, elems the elements of the data array it holds,   *)
(* and cut says that the stream broke off with the context's error before  *)
(* its first JSON value was complete.                                      *)

NoBody == [kind |-> "none", elems |-> <<>>, cut |-> FALSE]

SeqsUpTo(S, n) == UNION {[1..k -> S] : k \in 0..n}

\* an element of a data array: {"id":n}, an object of the record's shape
JObject(n) == [obj |-> TRUE, id |-> n]
\* an element of a data array that is no object: "x"
JString == [obj |-> FALSE, id |-> 0]
\* the ids of the records the model's server holds
RecIDs == {1, 2}
JElems == {JObject(n) : n \in RecIDs} \cup {JString}

EnvelopeBodies ==
    {[kind |-> k, elems |-> s, cut |-> FALSE] :
        k \in {"envelope", "envelope+trailing"}, s \in SeqsUpTo(JElems, MaxData)}

\* "envelope"           {"meta":{},"data":[...]}
\* "envelope+trailing"  an envelope followed by text that is no JSON
\* "nodata"             {"meta":{}}
\* "datanull"           {"data":null}
\* "dataobject"         {"data":{"id":1}}: a single bare object
\* "null"               null
\* "array"              [{"id":1}]: no object at the top
\* "garbage"            not json
\* "empty"              no byte at all
\* "truncated"          {"data":[{"id":1}   (the stream ends early)
OtherBodyKinds ==
    {"nodata", "datanull", "dataobject", "null", "array", "garbage", "empty",
     "truncated"}

OtherBodies == {[kind |-> k, elems |-> <<>>, cut |-> FALSE] : k \in OtherBodyKinds}

Bodies == EnvelopeBodies \cup OtherBodies

----------------------------------------------------------------------------
(* Errors.  kind names the error value, chain holds the kinds of the       *)
(* errors it wraps (all of them, to any depth); a request error carries    *)
(* the status and the text read from the body.                             *)

MkErr(k, ch) == [kind |-> k, chain |-> ch, status |-> 0, text |-> NoBody]

NilErr == MkErr("nil", {})

ErrBuildingRequest == MkErr("ErrBuildingRequest", {})
ErrQueryingAPI == MkErr("ErrQueryingAPI", {})
ErrRateLimitExceeded == MkErr("ErrRateLimitExceeded", {})
ErrInvalidID == MkErr("ErrInvalidID", {})

\* errors.Is(err, target) for a target that is a plain error value
Is(err, target) == err.kind = target.kind \/ target.kind \in err.chain

\* fmt.Errorf("%w: %w", a, b)
Wrap2(a, b) == MkErr("fmt.wrapErrors", {a.kind, b.kind} \cup a.chain \cup b.chain)

\* the error of url.Parse inside http.NewRequestWithContext
ParseError == MkErr("url.Error", {"url.parse"})

\* the error client.Do returns: a *url.Error around the transport's error
DoError(cause) == MkErr("url.Error", {cause})

\* the causes of a failed transport call that come from the network
NetCauses == {"connection refused", "timeout"}

ContextCanceled == MkErr("context.Canceled", {})

----------------------------------------------------------------------------
(* Values.  A slice or a pointer: nil, or the items it holds.              *)

NilVal == [isNil |-> TRUE, items |-> <<>>]
Slice(s) == [isNil |-> FALSE, items |-> s]

Result(v, e) == [val |-> v, err |-> e]
NoResult == Result(NilVal, MkErr("none", {}))

----------------------------------------------------------------------------
(* The client configuration and its construction. *)

customURL == "http://host/api/"
\* a base url.Parse rejects (a space in the host name)
badURL == "http://bad host/api/"
URLs == {customURL, badURL}
APIKeys == {"", "secret-key"}
\* an *http.Client handed to WithHTTPClient: nil, or a client of the caller
Clients == {"nil", "custom"}

WithURL(u) == [opt |-> "WithURL", arg |-> u]
WithAPIKey(k) == [opt |-> "WithAPIKey", arg |-> k]
WithHTTPClient(cl) == [opt |-> "WithHTTPClient", arg |-> cl]

Options ==
    {WithURL(u) : u \in URLs} \cup {WithAPIKey(k) : k \in APIKeys}
        \cup {WithHTTPClient(cl) : cl \in Clients}

DefaultAPI == [url |-> baseAPI, apiKey |-> "", client |-> "default"]

\* an option that leaves a field alone once another option has set it
ApplyOption_FirstWins(a, o) ==
    CASE o.opt = "WithURL" -> IF a.url = DefaultAPI.url THEN [a EXCEPT !.url = o.arg] ELSE a
      [] o.opt = "WithAPIKey" ->
           IF a.apiKey = DefaultAPI.apiKey THEN [a EXCEPT !.apiKey = o.arg] ELSE a
      [] o.opt = "WithHTTPClient" ->
           IF a.client = DefaultAPI.client THEN [a EXCEPT !.client = o.arg] ELSE a

\* opt(api): the closure an option returns, applied
ApplyOption(a, o) ==
    CASE o.opt = "WithURL" -> [a EXCEPT !.url = o.arg]
      [] o.opt = "WithAPIKey" -> [a EXCEPT !.apiKey = o.arg]
      [] o.opt = "WithHTTPClient" -> [a EXCEPT !.client = o.arg]

----------------------------------------------------------------------------
(* Search parameters (url.Values: a map from a key to a list of values,    *)
(* nil or not) and the request URL.                                        *)

\* the keys of the model, in the order sort.Strings gives them
KeyOrder == <<"ID", "a&b", "asn", "id", "name">>

NoValues == [k \in {} |-> <<>>]
NilSearch == [isNil |-> TRUE, m |-> NoValues]
MakeSearch(f) == [isNil |-> FALSE, m |-> f]

Searches ==
    {NilSearch,
     MakeSearch(NoValues),
     MakeSearch([k \in {"asn"} |-> <<"65536">>]),
     MakeSearch([k \in {"id"} |-> <<"10">>]),
     MakeSearch([k \in {"name"} |-> <<"a b", "c">>]),
     MakeSearch([k \in {"a&b"} |-> <<"x=y">>]),
     MakeSearch([k \in {"asn", "id"} |-> IF k = "asn" THEN <<"65536">> ELSE <<"10">>]),
     MakeSearch([k \in {"name"} |-> <<>>])}

\* A string is written as a sequence of pieces: a piece is one character
\* that has a meaning in a query ("&", "=", "+", " ", ...), one escape
\* ("%26"), or a run of letters and digits.  Chars gives the pieces of
\* the keys and values of the model that hold such a character; every
\* other string of the model is one run of letters and digits.
Chars(s) ==
    CASE s = "a b" -> <<"a", " ", "b">>
      [] s = "a&b" -> <<"a", "&", "b">>
      [] s = "x=y" -> <<"x", "=", "y">>
      [] OTHER -> <<s>>

\* the string of the pieces ts
RECURSIVE Flatten(_)
Flatten(ts) == IF ts = <<>> THEN "" ELSE Head(ts) \o Flatten(Tail(ts))

\* url.QueryEscape leaving every character as it is
EscapeChar_None(ch) == <<ch>>

\* url.QueryEscape on one piece: the space becomes "+", a character with
\* a meaning in a URL becomes its escape
EscapeChar(ch) ==
    CASE ch = " " -> <<"+">>
      [] ch = "&" -> <<"%26">>
      [] ch = "=" -> <<"%3D">>
      [] ch = "?" -> <<"%3F">>
      [] ch = "#" -> <<"%23">>
      [] ch = "+" -> <<"%2B">>
      [] ch = "%" -> <<"%25">>
      [] OTHER -> <<ch>>

RECURSIVE EscapeChars(_)
EscapeChars(cs) ==
    IF cs = <<>> THEN <<>> ELSE EscapeChar(Head(cs)) \o EscapeChars(Tail(cs))

\* url.QueryEscape(s), in pieces and as a string
QueryEscapeChars(s) == EscapeChars(Chars(s))
QueryEscape(s) == Flatten(QueryEscapeChars(s))

\* the pairs key=value of one key, each in pieces
RECURSIVE EncodeValues(_, _)
EncodeValues(k, vs) ==
    IF vs = <<>> THEN <<>>
    ELSE <<QueryEscapeChars(k) \o <<"=">> \o QueryEscapeChars(Head(vs))>>
             \o EncodeValues(k, Tail(vs))

\* the orders in which a range over the map m can give its keys
Orders(m) ==
    {o \in [1..Cardinality(DOMAIN m) -> DOMAIN m] :
        \A i, j \in DOMAIN o : i # j => o[i] # o[j]}

\* a < b on the keys of the model
Position(k) == CHOOSE i \in 1..Len(KeyOrder) : KeyOrder[i] = k
Less(a, b) == Position(a) < Position(b)

\* the keys left as the range over the map gave them
SortStrings_None(keys) == keys

\* sort.Strings(keys), slices.Sort(keys): keys holds no string twice
SortStrings(keys) ==
    [i \in 1..Len(keys) |->
        CHOOSE k \in {keys[j] : j \in 1..Len(keys)} :
            Cardinality({j \in 1..Len(keys) : Less(keys[j], k)}) = i - 1]

RECURSIVE EncodeKeys(_, _)
EncodeKeys(m, keys) ==
    IF keys = <<>> THEN <<>>
    ELSE EncodeValues(Head(keys), m[Head(keys)]) \o EncodeKeys(m, Tail(keys))

\* the sequences of pieces ss made one, sep between them
RECURSIVE JoinChars(_, _)
JoinChars(ss, sep) ==
    IF ss = <<>> THEN <<>>
    ELSE IF Len(ss) = 1 THEN ss[1]
    ELSE ss[1] \o <<sep>> \o JoinChars(Tail(ss), sep)

\* len(search)
LenSearch(search) == Cardinality(DOMAIN search.m)

\* url.Values.Encode, in pieces and as a string; ord: the keys as the
\* range over the map gives them
EncodeChars(search, ord) ==
    IF LenSearch(search) = 0 THEN <<>>
    ELSE JoinChars(EncodeKeys(search.m, SortStrings(ord)), "&")

Encode(search, ord) == Flatten(EncodeChars(search, ord))

\* the encoded search fetch appends to the URL, "" where it appends nothing
RequestQuery(search, ord) == IF LenSearch(search) > 0 THEN Encode(search, ord) ELSE ""

\* the search appended whenever it is not nil
RequestURL_NotNil(a, namespace, search, ord) ==
    a.url \o namespace \o "?depth=1"
        \o (IF ~search.isNil THEN "&" \o Encode(search, ord) ELSE "")

\* the search taking the place of the directive depth=1
RequestURL_NoDepth(a, namespace, search, ord) ==
    a.url \o namespace
        \o (IF LenSearch(search) > 0 THEN "?" \o Encode(search, ord) ELSE "?depth=1")

\* the URL fetch requests
RequestURL(a, namespace, search, ord) ==
    a.url \o namespace \o "?depth=1"
        \o (IF LenSearch(search) > 0 THEN "&" \o Encode(search, ord) ELSE "")

\* url.Parse of the request URL succeeds: the namespaces and the encoded
\* query are always well formed, so the base decides
Parseable(a) == a.url # badURL

\* strconv.Itoa
Itoa(n) == ToString(n)

\* a search that holds a second entry next to id
IDSearch_WithName(id) ==
    MakeSearch([k \in {"id", "name"} |-> IF k = "id" THEN <<Itoa(id)>> ELSE <<"c">>])

\* the search fetchByID builds
IDSearch(id) == MakeSearch([k \in {"id"} |-> <<Itoa(id)>>])

\* the search GetASN builds
ASNSearch(asn) == MakeSearch([k \in {"asn"} |-> <<Itoa(asn)>>])

----------------------------------------------------------------------------
(* The search parameters of lookup, the predecessor of fetch: a map from a *)
(* key to one value of any type (map[string]interface{}), nil or not, and  *)
(* the URL formatURL builds of them.                                       *)

IntV(n) == [t |-> "int", n |-> n, s |-> ""]
StrV(s) == [t |-> "string", n |-> 0, s |-> s]

\* fmt.Sprintf("%v", v)
Sprint(v) == IF v.t = "int" THEN Itoa(v.n) ELSE v.s

Parameters ==
    {NilSearch,
     MakeSearch(NoValues),
     MakeSearch([k \in {"id"} |-> IntV(10)]),
     MakeSearch([k \in {"asn", "id"} |-> IF k = "asn" THEN IntV(65536) ELSE IntV(10)]),
     MakeSearch([k \in {"asn", "id", "name"} |->
                    IF k = "asn" THEN IntV(65536)
                    ELSE IF k = "id" THEN IntV(10) ELSE StrV("a b")]),
     MakeSearch([k \in {"ID", "id"} |-> IF k = "ID" THEN StrV("x=y") ELSE IntV(10)]),
     MakeSearch([k \in {"a&b"} |-> IntV(1)])}

\* the loop over the sorted keys, in pieces: the key goes in as it is
RECURSIVE FormatKeys(_, _)
FormatKeys(m, keys) ==
    IF keys = <<>> THEN <<>>
    ELSE <<"&">> \o Chars(Head(keys)) \o <<"=">>
             \o QueryEscapeChars(Sprint(m[Head(keys)]))
             \o FormatKeys(m, Tail(keys))

\* formatSearchParameters in pieces and as a string; ord: the keys as the
\* range over the map gives them
formatSearchParametersChars(parameters, ord) ==
    IF parameters.isNil THEN <<>> ELSE FormatKeys(parameters.m, SortStrings(ord))

formatSearchParameters(parameters, ord) ==
    Flatten(formatSearchParametersChars(parameters, ord))

formatURL(base, namespace, search, ord) ==
    base \o namespace \o "?depth=1" \o formatSearchParameters(search, ord)

----------------------------------------------------------------------------
(* Decoding: json.NewDecoder(response.Body).Decode(&r) into a              *)
(* resource[T].  The decoder reads one JSON value and nothing after it; a  *)
(* type mismatch is remembered and the decoding goes on, so r.Data can be  *)
(* partly filled when the error is returned.                               *)

\* the record T decoded from one element: its id, the zero value for an
\* element that is no object
UnmarshalElem(e) == IF e.obj THEN e.id ELSE 0

UnmarshalElems(es) == [i \in 1..Len(es) |-> UnmarshalElem(es[i])]

Decode(b) ==
    IF b.cut THEN [err |-> ContextCanceled, data |-> NilVal]
    ELSE CASE b.kind = "empty" -> [err |-> MkErr("io.EOF", {}), data |-> NilVal]
           [] b.kind = "garbage" -> [err |-> MkErr("json.SyntaxError", {}), data |-> NilVal]
           [] b.kind = "truncated" ->
                [err |-> MkErr("io.ErrUnexpectedEOF", {}), data |-> NilVal]
           [] b.kind \in {"array", "dataobject"} ->
                [err |-> MkErr("json.UnmarshalTypeError", {}), data |-> NilVal]
           [] b.kind \in {"null", "nodata", "datanull"} ->
                [err |-> NilErr, data |-> NilVal]
           [] b.kind \in {"envelope", "envelope+trailing"} ->
                [err |-> IF \E i \in 1..Len(b.elems) : ~b.elems[i].obj
                         THEN MkErr("json.UnmarshalTypeError", {}) ELSE NilErr,
                 data |-> Slice(UnmarshalElems(b.elems))]

----------------------------------------------------------------------------
(* fetch, after client.Do has returned. *)

\* the statuses of the model's server
Statuses == {200, 204, 299, 404, 429, 500}

\* a request built by http.NewRequest: no context
RequestHasContext_None == FALSE

\* fetch's request carries the context of the call
RequestHasContext == TRUE

\* the check of the rate limit left out
IsRateLimited_Never(status) == FALSE

IsRateLimited(status) == status = StatusTooManyRequests

\* every status of the 2xx range taken for a success
IsOK_2xx(status) == status \in 200..299

IsOK(status) == status = StatusOK

\* the build error wrapped once more, as an error of the query
BuildError_AsQuery(e) == Wrap2(ErrQueryingAPI, Wrap2(ErrBuildingRequest, e))

\* fmt.Errorf("%w: %w", ErrBuildingRequest, err)
BuildError(e) == Wrap2(ErrBuildingRequest, e)

\* fmt.Errorf("%w: %v", ErrQueryingAPI, err): the cause is only printed
QueryError_NoWrap(e) == MkErr("fmt.wrapError", {ErrQueryingAPI.kind})

\* fmt.Errorf("%w: %w", ErrQueryingAPI, err)
QueryError(e) == Wrap2(ErrQueryingAPI, e)

\* errors.New(response.Status): the body is not read
RequestError_NoBody(status, body) ==
    [kind |-> "errors.errorString", chain |-> {}, status |-> status, text |-> NoBody]

\* fmt.Errorf("%s: %s", response.Status, body), body being what io.ReadAll
\* read of the response body
RequestError(status, body) ==
    [kind |-> "errors.errorString", chain |-> {}, status |-> status, text |-> body]

\* the decoder's error wrapped as an error of the query
DecodeFailure_AsQuery(d) == Result(NilVal, Wrap2(ErrQueryingAPI, d.err))

\* r.Data returned as the decoder left it, next to the error
DecodeFailure_Partial(d) == Result(d.data, d.err)

\* what fetch returns when Decode returned the error d.err
DecodeFailure(d) == Result(NilVal, d.err)

\* an empty data array reported as an error
DecodeSuccess_ErrorWhenEmpty(d) ==
    IF Len(d.data.items) = 0 THEN Result(NilVal, MkErr("errors.errorString", {}))
    ELSE Result(d.data, NilErr)

\* what fetch returns when Decode returned no error
DecodeSuccess(d) == Result(d.data, NilErr)

\* fetch from the response on
FetchResponse(status, body) ==
    IF IsRateLimited(status) THEN Result(NilVal, ErrRateLimitExceeded)
    ELSE IF ~IsOK(status) THEN Result(NilVal, RequestError(status, body))
    ELSE LET d == Decode(body) IN
         IF d.err # NilErr THEN DecodeFailure(d) ELSE DecodeSuccess(d)

\* fetch when client.Do returned the error e
FetchDoError(e) == Result(NilVal, QueryError(e))

\* fetch when http.NewRequestWithContext returned the error e
FetchBuildError(e) == Result(NilVal, BuildError(e))

\* the Authorization header set whatever the key is
RequestHeader_Always(a) ==
    [h \in {"User-Agent", "Authorization"} |->
        IF h = "User-Agent" THEN <<"go-peeringdb/" \o Version>>
        ELSE <<"Api-Key " \o a.apiKey>>]

\* the header of fetch's request: each key with the list of its values,
\* which Header.Set makes a list of one
RequestHeader(a) ==
    [h \in {"User-Agent"} \cup (IF a.apiKey # "" THEN {"Authorization"} ELSE {}) |->
        IF h = "User-Agent" THEN <<"go-peeringdb/" \o Version>>
        ELSE <<"Api-Key " \o a.apiKey>>]

----------------------------------------------------------------------------
(* fetchByID around fetch. *)

\* the id 0 let through
InvalidID_Negative(id) == id < 0

InvalidID(id) == id <= 0

\* several matches reported as an error
FetchByIDResult_Strict(fr) ==
    IF fr.err # NilErr THEN Result(NilVal, fr.err)
    ELSE IF Len(fr.val.items) = 0 THEN Result(NilVal, NilErr)
    ELSE IF Len(fr.val.items) > 1 THEN Result(NilVal, MkErr("errors.errorString", {}))
    ELSE Result(Slice(<<fr.val.items[1]>>), NilErr)

\* the error of fetch printed into a new error: fmt.Errorf("%v", err)
FetchByIDResult_ErrorPrinted(fr) ==
    IF fr.err # NilErr THEN Result(NilVal, MkErr("errors.errorString", {}))
    ELSE IF Len(fr.val.items) = 0 THEN Result(NilVal, NilErr)
    ELSE Result(Slice(<<fr.val.items[1]>>), NilErr)

\* what fetchByID returns when fetch returned fr
FetchByIDResult(fr) ==
    IF fr.err # NilErr THEN Result(NilVal, fr.err)
    ELSE IF Len(fr.val.items) = 0 THEN Result(NilVal, NilErr)
    ELSE Result(Slice(<<fr.val.items[1]>>), NilErr)

----------------------------------------------------------------------------
(* GetASN around GetNetwork, which is fetch on the network namespace. *)

\* the AS numbers handed to GetASN: GetASN checks its argument in no way
ASNs == {0, 65536}

\* fmt.Errorf("no network found for ASN %d", asn): text holds the message
NotFoundError(asn) ==
    [kind |-> "errors.errorString", chain |-> {}, status |-> 0,
     text |-> [kind |-> "no network found for ASN " \o Itoa(asn), elems |-> <<>>,
               cut |-> FALSE]]

\* no network found: no value and no error, as fetchByID has it
GetASNResult_NoError(asn, fr) ==
    IF fr.err # NilErr THEN Result(NilVal, fr.err)
    ELSE IF Len(fr.val.items) = 0 THEN Result(NilVal, NilErr)
    ELSE Result(Slice(<<fr.val.items[1]>>), NilErr)

\* what GetASN returns when GetNetwork returned fr
GetASNResult(asn, fr) ==
    IF fr.err # NilErr THEN Result(NilVal, fr.err)
    ELSE IF Len(fr.val.items) = 0 THEN Result(NilVal, NotFoundError(asn))
    ELSE Result(Slice(<<fr.val.items[1]>>), NilErr)

\* what the operation op, called with the number id, returns when its call
\* of fetch returned fr
Outer(op, id, fr) ==
    IF op = "fetchByID" THEN FetchByIDResult(fr)
    ELSE IF op = "GetASN" THEN GetASNResult(id, fr)
    ELSE fr

----------------------------------------------------------------------------
(* The state machine. *)

NoCall == [op |-> "none", ns |-> "", search |-> NilSearch, id |-> 0, ord |-> <<>>]
NoHeader == [h \in {} |-> <<>>]
NoRequest == [url |-> "", query |-> "", header |-> NoHeader]
NoResponse == [got |-> "none", cause |-> "", status |-> 0, body |-> NoBody]

\* NewAPI(opts...) is entered: api holds the defaults, and the loop over
\* opts has applied nopt of them
Init ==
    /\ opts \in SeqsUpTo(Options, MaxOpts)
    /\ nopt = 0
    /\ apc = "loop"
    /\ api = DefaultAPI
    /\ pc = [c \in Calls |-> "idle"]
    /\ call = [c \in Calls |-> NoCall]
    /\ cancelled = [c \in Calls |-> FALSE]
    /\ nreq = [c \in Calls |-> 0]
    /\ req = [c \in Calls |-> NoRequest]
    /\ resp = [c \in Calls |-> NoResponse]
    /\ closes = [c \in Calls |-> 0]
    /\ fret = [c \in Calls |-> NoResult]
    /\ ret = [c \in Calls |-> NoResult]

\* one turn of NewAPI's loop: opt(api)
ApplyNext ==
    /\ apc = "loop"
    /\ nopt < Len(opts)
    /\ api' = ApplyOption(api, opts[nopt + 1])
    /\ nopt' = nopt + 1
    /\ UNCHANGED <<opts, apc, pc, call, cancelled, nreq, req, resp, closes, fret, ret>>

\* NewAPI returns api; its parameter opts is gone
NewAPIReturn ==
    /\ apc = "loop"
    /\ nopt = Len(opts)
    /\ apc' = "ready"
    /\ opts' = <<>>
    /\ nopt' = 0
    /\ UNCHANGED <<api, pc, call, cancelled, nreq, req, resp, closes, fret, ret>>

\* a fetch that forgets the API key once it has used it
APIAfterCall_KeyDropped(a) == [a EXCEPT !.apiKey = ""]

\* *api when a call has gone up to client.Do: fetch, fetchByID and GetASN
\* read the fields of api and assign none
APIAfterCall(a) == a

\* GetAllX asking for the records of one name only
AllSearch_OneName == MakeSearch([k \in {"name"} |-> <<"c">>])

\* the search GetAllX hands to GetX: nil
AllSearch == NilSearch

\* the search the operation op hands to fetch
CallSearch(op, s, id) ==
    IF op = "fetchByID" THEN IDSearch(id)
    ELSE IF op = "GetASN" THEN ASNSearch(id)
    ELSE IF op = "GetAll" THEN AllSearch
    ELSE s

\* the caller c calls op; pre: its context is cancelled already; ord: the
\* keys of the search as the range of Encode gives them.  The call runs up
\* to its first return, or to client.Do, which panics on the nil client of
\* WithHTTPClient(nil).
Begin(c, op, ns, s, id, pre, ord) ==
    /\ apc = "ready"
    /\ pc[c] = "idle"
    /\ call' = [call EXCEPT ![c] =
                    [op |-> op, ns |-> ns, search |-> s, id |-> id, ord |-> ord]]
    /\ cancelled' = [cancelled EXCEPT ![c] = pre]
    /\ IF op = "fetchByID" /\ InvalidID(id)
       THEN /\ pc' = [pc EXCEPT ![c] = "done"]
            /\ ret' = [ret EXCEPT ![c] = Result(NilVal, ErrInvalidID)]
            /\ UNCHANGED <<nreq, req, fret>>
       ELSE LET search == CallSearch(op, s, id)
                r == [url |-> RequestURL(api, ns, search, ord),
                      query |-> RequestQuery(search, ord),
                      header |-> RequestHeader(api)]
            IN  IF ~Parseable(api)
                THEN /\ pc' = [pc EXCEPT ![c] = "done"]
                     /\ fret' = [fret EXCEPT ![c] = FetchBuildError(ParseError)]
                     /\ ret' = [ret EXCEPT ![c] = Outer(op, id, FetchBuildError(ParseError))]
                     /\ UNCHANGED <<nreq, req>>
                ELSE IF api.client = "nil"
                THEN /\ pc' = [pc EXCEPT ![c] = "panic"]
                     /\ req' = [req EXCEPT ![c] = r]
                     /\ UNCHANGED <<nreq, fret, ret>>
                ELSE /\ pc' = [pc EXCEPT ![c] = "sent"]
                     /\ req' = [req EXCEPT ![c] = r]
                     /\ nreq' = [nreq EXCEPT ![c] = @ + 1]
                     /\ UNCHANGED <<fret, ret>>
    /\ api' = APIAfterCall(api)
    /\ UNCHANGED <<opts, nopt, apc, resp, closes>>

\* GetX(ctx, search), X one of the namespaces nss and search one of ss
StartFetchIn(c, nss, ss) ==
    \E ns \in nss, s \in ss, pre \in BOOLEAN :
        \E ord \in Orders(s.m) : Begin(c, "fetch", ns, s, 0, pre, ord)

StartFetch(c) == StartFetchIn(c, Namespaces, Searches)

\* GetAllX(ctx), X one of the namespaces nss
StartGetAllIn(c, nss) ==
    \E ns \in nss, pre \in BOOLEAN :
        \E ord \in Orders(AllSearch.m) : Begin(c, "GetAll", ns, NilSearch, 0, pre, ord)

StartGetAll(c) == StartGetAllIn(c, Namespaces)

\* GetXByID(ctx, id), X one of the namespaces nss
StartFetchByIDIn(c, nss) ==
    \E ns \in nss, id \in (-MaxID)..MaxID, pre \in BOOLEAN :
        \E ord \in (IF InvalidID(id) THEN {<<>>} ELSE Orders(IDSearch(id).m)) :
            Begin(c, "fetchByID", ns, NilSearch, id, pre, ord)

StartFetchByID(c) == StartFetchByIDIn(c, Namespaces)

\* GetASN(ctx, asn)
StartGetASN(c) ==
    \E asn \in ASNs, pre \in BOOLEAN :
        \E ord \in Orders(ASNSearch(asn).m) :
            Begin(c, "GetASN", networkNamespace, NilSearch, asn, pre, ord)

\* formatURL(api.url, namespace, search), the first step of lookup
FormatURL(c) ==
    /\ apc = "ready"
    /\ pc[c] = "idle"
    /\ \E ns \in Namespaces, s \in Parameters :
          \E ord \in Orders(s.m) :
              /\ call' = [call EXCEPT ![c] =
                              [op |-> "formatURL", ns |-> ns, search |-> s, id |-> 0,
                               ord |-> ord]]
              /\ req' = [req EXCEPT ![c] =
                             [url |-> formatURL(api.url, ns, s, ord),
                              query |-> formatSearchParameters(s, ord),
                              header |-> NoHeader]]
    /\ pc' = [pc EXCEPT ![c] = "done"]
    /\ UNCHANGED <<opts, nopt, apc, api, cancelled, nreq, resp, closes, fret, ret>>

\* one cancellation reaching the requests of all the calls
CtxDone_Shared(c) == \E d \in Calls : cancelled[d]

\* the context the request of the call c was built with is done: each
\* call hands its own ctx to http.NewRequestWithContext
CtxDone(c) == cancelled[c]

\* the context of the call is cancelled while the call is in progress
Cancel(c) ==
    /\ pc[c] \in {"sent", "resp"}
    /\ ~cancelled[c]
    /\ cancelled' = [cancelled EXCEPT ![c] = TRUE]
    /\ UNCHANGED <<opts, nopt, apc, api, pc, call, nreq, req, resp, closes, fret, ret>>

\* client.Do returns a response: its status and header have arrived.  A
\* response that arrives together with the cancellation is the response
\* arriving first and Cancel(c) following it.
\* the server answers with one of the statuses sts and of the bodies bs
RespondWith(c, sts, bs) ==
    /\ pc[c] = "sent"
    /\ ~CtxDone(c)
    /\ \E st \in sts, b \in bs :
          resp' = [resp EXCEPT ![c] =
                      [got |-> "response", cause |-> "", status |-> st, body |-> b]]
    /\ pc' = [pc EXCEPT ![c] = "resp"]
    /\ UNCHANGED <<opts, nopt, apc, api, call, cancelled, nreq, req, closes, fret, ret>>

Respond(c) == RespondWith(c, Statuses, Bodies)

\* a failed request sent once more
Resend_OnError(fr, n) == fr.err # NilErr /\ n < 2

\* fetch sends its request again instead of returning fr, n being the
\* requests it has sent: fetch has no loop, each of its paths ends in a
\* return
Resend(fr, n) == FALSE

\* client.Do returns an error, and fetch returns
DoFailed(c, cause) ==
    /\ pc[c] = "sent"
    /\ LET fr == FetchDoError(DoError(cause)) IN
           IF Resend(fr, nreq[c])
           THEN /\ nreq' = [nreq EXCEPT ![c] = @ + 1]
                /\ UNCHANGED <<pc, resp, fret, ret>>
           ELSE /\ resp' = [resp EXCEPT ![c] =
                               [got |-> "error", cause |-> cause, status |-> 0,
                                body |-> NoBody]]
                /\ fret' = [fret EXCEPT ![c] = fr]
                /\ ret' = [ret EXCEPT ![c] = Outer(call[c].op, call[c].id, fr)]
                /\ pc' = [pc EXCEPT ![c] = "done"]
                /\ UNCHANGED nreq
    /\ UNCHANGED <<opts, nopt, apc, api, call, cancelled, req, closes>>

\* the network fails
Fail(c) == \E cause \in NetCauses : DoFailed(c, cause)

\* the transport gives up the request of a cancelled context
Abort(c) ==
    /\ CtxDone(c)
    /\ RequestHasContext
    /\ DoFailed(c, ContextCanceled.kind)

\* the body left open when the decoding fails
ClosesOf_LeakOnDecodeError(status, rd) ==
    IF IsOK(status) /\ rd THEN 0 ELSE 1

\* the calls of response.Body.Close() fetch makes before it returns on a
\* response of that status, rd saying that the reading of the body was
\* cut: the deferred call, on every path
ClosesOf(status, rd) == 1

\* fetch classifies the response, reads its body where the status asks for
\* it, closes the body (the deferred Close) and returns; rd: the reading of
\* the body was cut by the cancelled context
Finish(c, rd) ==
    /\ pc[c] = "resp"
    /\ rd => CtxDone(c) /\ RequestHasContext /\ ~IsRateLimited(resp[c].status)
    /\ LET body == [resp[c].body EXCEPT !.cut = rd]
           fr == FetchResponse(resp[c].status, body)
       IN  IF Resend(fr, nreq[c])
           THEN /\ nreq' = [nreq EXCEPT ![c] = @ + 1]
                /\ resp' = [resp EXCEPT ![c] = NoResponse]
                /\ pc' = [pc EXCEPT ![c] = "sent"]
                /\ UNCHANGED <<fret, ret>>
           ELSE /\ resp' = [resp EXCEPT ![c].body = body]
                /\ fret' = [fret EXCEPT ![c] = fr]
                /\ ret' = [ret EXCEPT ![c] = Outer(call[c].op, call[c].id, fr)]
                /\ pc' = [pc EXCEPT ![c] = "done"]
                /\ UNCHANGED nreq
    /\ closes' = [closes EXCEPT ![c] = @ + ClosesOf(resp[c].status, rd)]
    /\ UNCHANGED <<opts, nopt, apc, api, call, cancelled, req>>

Complete(c) == \E rd \in BOOLEAN : Finish(c, rd)

\* the caller has its result and is ready for its next call
Reset(c) ==
    /\ pc[c] = "done"
    /\ pc' = [pc EXCEPT ![c] = "idle"]
    /\ call' = [call EXCEPT ![c] = NoCall]
    /\ cancelled' = [cancelled EXCEPT ![c] = FALSE]
    /\ nreq' = [nreq EXCEPT ![c] = 0]
    /\ req' = [req EXCEPT ![c] = NoRequest]
    /\ resp' = [resp EXCEPT ![c] = NoResponse]
    /\ closes' = [closes EXCEPT ![c] = 0]
    /\ fret' = [fret EXCEPT ![c] = NoResult]
    /\ ret' = [ret EXCEPT ![c] = NoResult]
    /\ UNCHANGED <<opts, nopt, apc, api>>

Next ==
    \/ ApplyNext
    \/ NewAPIReturn
    \/ \E c \in Solo :
        \/ StartFetch(c)
        \/ StartGetAll(c)
        \/ StartFetchByID(c)
        \/ StartGetASN(c)
        \/ FormatURL(c)
        \/ Cancel(c)
        \/ Respond(c)
        \/ Fail(c)
        \/ Abort(c)
        \/ Complete(c)
        \/ Reset(c)

Spec == Init /\ [][Next]_vars

\* the steps of a cancelled call that do not wait for the server: the
\* transport gives the request up, the reading of the body is cut, or the
\* response needs no reading at all
Progress(c) ==
    \/ Abort(c)
    \/ Finish(c, TRUE)
    \/ IsRateLimited(resp[c].status) /\ Finish(c, FALSE)

SpecLive == Spec /\ \A c \in Calls : WF_vars(Progress(c))

----------------------------------------------------------------------------
(* Concurrent calls: the callers of Calls share the configuration and     *)
(* their calls overlap in every way.  The option lists, searches, statuses *)
(* and bodies are a few of the ones above.                                 *)

ConcOptions == {<<>>, <<WithAPIKey("secret-key")>>, <<WithURL(customURL), WithAPIKey("")>>}
ConcNamespaces == {networkNamespace}
ConcSearches == {NilSearch, MakeSearch([k \in {"asn"} |-> <<"65536">>])}
ConcStatuses == {StatusOK, StatusTooManyRequests, 500}
ConcBodies ==
    {[kind |-> "envelope", elems |-> <<JObject(1)>>, cut |-> FALSE],
     [kind |-> "envelope", elems |-> <<>>, cut |-> FALSE],
     [kind |-> "garbage", elems |-> <<>>, cut |-> FALSE]}

InitConc == Init /\ opts \in ConcOptions

NextConc ==
    \/ ApplyNext
    \/ NewAPIReturn
    \/ \E c \in Calls :
        \/ StartFetchIn(c, ConcNamespaces, ConcSearches)
        \/ StartFetchIn(c, Namespaces, {NilSearch})
        \/ StartGetAllIn(c, Namespaces)
        \/ StartFetchByIDIn(c, ConcNamespaces)
        \/ Cancel(c)
        \/ RespondWith(c, ConcStatuses, ConcBodies)
        \/ Fail(c)
        \/ Abort(c)
        \/ Complete(c)
        \/ Reset(c)

SpecConc == InitConc /\ [][NextConc]_vars

----------------------------------------------------------------------------
(* The claims. *)

Done(c) == pc[c] = "done"
\* client.Do returned a response to the call
Answered(c) == Done(c) /\ resp[c].got = "response"

IsRequestError(e) == e.kind = "errors.errorString" /\ e.chain = {}

\* C1: for every namespace and every id <= 0, fetchByID returns no value
\* and ErrInvalidID, and no HTTP request is issued (nor built).
C1_InvalidIDFailsFast ==
    \A c \in Calls :
        (call[c].op = "fetchByID" /\ call[c].id <= 0) =>
            /\ Done(c)
            /\ ret[c] = Result(NilVal, ErrInvalidID)
            /\ nreq[c] = 0
            /\ req[c] = NoRequest

C1_Witness ==
    \E c \in Calls :
        /\ Done(c) /\ call[c].op = "fetchByID" /\ call[c].id = 0
        /\ call[c].ns = organizationNamespace
        /\ ret[c].err = ErrInvalidID

\* C2: a response of status 429 makes fetch return nil and exactly
\* ErrRateLimitExceeded, whatever the body holds.
C2_RateLimit ==
    \A c \in Calls :
        (Answered(c) /\ resp[c].status = 429) =>
            /\ fret[c] = Result(NilVal, ErrRateLimitExceeded)
            /\ ~Is(fret[c].err, ErrQueryingAPI)
            /\ ~IsRequestError(fret[c].err)

C2_Witness ==
    \E c \in Calls :
        /\ Answered(c) /\ resp[c].status = 429
        /\ resp[c].body.kind = "envelope" /\ Len(resp[c].body.elems) = 1
        /\ fret[c].err = ErrRateLimitExceeded

\* fetch returned what the decoding of the body gives
HandedToDecoder(c) ==
    LET d == Decode(resp[c].body) IN
        fret[c] = IF d.err # NilErr THEN Result(NilVal, d.err) ELSE Result(d.data, NilErr)

\* C3 as claimed: every status of 200..299 is a success, its body is handed
\* to the decoder and no request error comes of it.
C3_Every2xxIsSuccess ==
    \A c \in Calls :
        (Answered(c) /\ resp[c].status \in 200..299) =>
            HandedToDecoder(c) /\ ~IsRequestError(fret[c].err)

\* C3, amended: the status 200 alone is a success whose body is handed to
\* the decoder; every other status of the 2xx range (201..299) gives a
\* request error carrying that status.
C3_OnlyOKIsSuccess ==
    \A c \in Calls :
        Answered(c) =>
            /\ resp[c].status = 200 => HandedToDecoder(c) /\ ~IsRequestError(fret[c].err)
            /\ resp[c].status \in 201..299 =>
                   /\ IsRequestError(fret[c].err)
                   /\ fret[c].err.status = resp[c].status
                   /\ fret[c].val = NilVal

C3_Witness ==
    \E c \in Calls :
        /\ Answered(c) /\ resp[c].status = 204
        /\ resp[c].body.kind = "empty"
        /\ IsRequestError(fret[c].err)

\* C4: a response whose status is neither 2xx nor 429 makes fetch return
\* nil and a request error that carries the status and the text read from
\* the body, and that is neither ErrRateLimitExceeded nor ErrQueryingAPI.
C4_RequestError ==
    \A c \in Calls :
        (Answered(c) /\ resp[c].status \notin 200..299 /\ resp[c].status # 429) =>
            /\ fret[c].val = NilVal
            /\ IsRequestError(fret[c].err)
            /\ fret[c].err.status = resp[c].status
            /\ fret[c].err.text = resp[c].body
            /\ ~Is(fret[c].err, ErrRateLimitExceeded)
            /\ ~Is(fret[c].err, ErrQueryingAPI)

C4_Witness ==
    \E c \in Calls :
        /\ Answered(c) /\ resp[c].status = 500
        /\ resp[c].body.kind = "garbage" /\ ~resp[c].body.cut
        /\ fret[c].err.status = 500 /\ fret[c].err.text.kind = "garbage"

\* C5: when client.Do fails (no response), fetch returns nil and an error
\* that is ErrQueryingAPI and still wraps the transport's error; no status
\* is classified and no body is read.
C5_QueryError ==
    \A c \in Calls :
        (Done(c) /\ resp[c].got = "error") =>
            /\ fret[c].val = NilVal
            /\ Is(fret[c].err, ErrQueryingAPI)
            /\ Is(fret[c].err, DoError(resp[c].cause))
            /\ resp[c].cause \in fret[c].err.chain
            /\ ~Is(fret[c].err, ErrRateLimitExceeded)
            /\ ~IsRequestError(fret[c].err)
            /\ closes[c] = 0

C5_Witness ==
    \E c \in Calls :
        /\ Done(c) /\ resp[c].got = "error" /\ resp[c].cause = "connection refused"
        /\ ~cancelled[c]
        /\ Is(fret[c].err, ErrQueryingAPI)

\* C6 as claimed, for the calls the cancellation cut short: a fetch whose
\* request was sent and whose context was cancelled before the response
\* arrived or while its body was read fails with an error that is
\* ErrQueryingAPI.
C6_CancelledIsQueryError ==
    \A c \in Calls :
        (Done(c) /\ cancelled[c] /\ nreq[c] = 1
            /\ (resp[c].got = "error" \/ resp[c].body.cut)) =>
            Is(fret[c].err, ErrQueryingAPI)

\* C7: a call whose context is cancelled while it is in progress returns,
\* also when the server never answers.
C7_CancelledCallReturns ==
    \A c \in Calls : (cancelled[c] /\ pc[c] \in {"sent", "resp"}) ~> Done(c)

C7_Witness ==
    \E c \in Calls :
        /\ Done(c) /\ cancelled[c]
        /\ resp[c].got = "error" /\ resp[c].cause = ContextCanceled.kind
        /\ fret[c].err # NilErr

\* a body that is no JSON (or breaks off), or whose JSON does not have the
\* shape of an envelope of records
Malformed(b) == b.cut \/ b.kind \in {"garbage", "truncated", "empty"}
Mismatched(b) ==
    \/ b.kind \in {"array", "dataobject"}
    \/ b.kind = "envelope" /\ \E i \in 1..Len(b.elems) : ~b.elems[i].obj

\* C8: on a response of status 200 whose body is malformed or does not
\* match the envelope, fetch returns nil and an error that is none of
\* ErrQueryingAPI, ErrRateLimitExceeded, ErrBuildingRequest, ErrInvalidID.
C8_DecodeError ==
    \A c \in Calls :
        (Answered(c) /\ resp[c].status = 200
            /\ (Malformed(resp[c].body) \/ Mismatched(resp[c].body))) =>
            /\ fret[c].val = NilVal
            /\ fret[c].err # NilErr
            /\ ~IsRequestError(fret[c].err)
            /\ \A e \in {ErrQueryingAPI, ErrRateLimitExceeded, ErrBuildingRequest,
                         ErrInvalidID} : ~Is(fret[c].err, e)

C8_Witness ==
    \E c \in Calls :
        /\ Answered(c) /\ resp[c].status = 200
        /\ resp[c].body.kind = "envelope" /\ Len(resp[c].body.elems) = 2
        /\ resp[c].body.elems[1].obj /\ ~resp[c].body.elems[2].obj
        /\ fret[c].err.kind = "json.UnmarshalTypeError"

WellFormedEnvelope(b) ==
    /\ ~b.cut
    /\ b.kind = "envelope"
    /\ \A i \in 1..Len(b.elems) : b.elems[i].obj

\* C9: on a response of status 200 with a well-formed envelope, fetch
\* returns no error and the records of the data array, as many and in the
\* same order; an empty array gives no record and no error.
C9_DataSequence ==
    \A c \in Calls :
        (Answered(c) /\ resp[c].status = 200 /\ WellFormedEnvelope(resp[c].body)) =>
            /\ fret[c].err = NilErr
            /\ Len(fret[c].val.items) = Len(resp[c].body.elems)
            /\ \A i \in 1..Len(resp[c].body.elems) :
                   fret[c].val.items[i] = resp[c].body.elems[i].id

C9_Witness ==
    \E c \in Calls :
        /\ Answered(c) /\ resp[c].status = 200
        /\ resp[c].body = [kind |-> "envelope", elems |-> <<JObject(2), JObject(1)>>,
                           cut |-> FALSE]
        /\ fret[c] = Result(Slice(<<2, 1>>), NilErr)

\* C10: for id > 0, when fetch returns no error, fetchByID returns no
\* value and no error if fetch returned no record, and else the first
\* record and no error, also when fetch returned several.
C10_FirstOrNone ==
    \A c \in Calls :
        (Done(c) /\ call[c].op = "fetchByID" /\ call[c].id > 0 /\ fret[c].err = NilErr) =>
            /\ ret[c].err = NilErr
            /\ Len(fret[c].val.items) = 0 => ret[c].val = NilVal
            /\ Len(fret[c].val.items) > 0 =>
                   ret[c].val = Slice(<<fret[c].val.items[1]>>)

C10_Witness ==
    \E c \in Calls :
        /\ Done(c) /\ call[c].op = "fetchByID" /\ call[c].id > 0
        /\ fret[c] = Result(Slice(<<2, 1>>), NilErr)
        /\ ret[c] = Result(Slice(<<2>>), NilErr)

\* C11: when the query of GetASN succeeds with no network, GetASN returns
\* a nil network and an error that is not nil (the not-found error), where
\* fetchByID returns no value and no error on the same result of fetch.
C11_NoNetworkIsAnError ==
    \A c \in Calls :
        (Done(c) /\ call[c].op = "GetASN" /\ fret[c].err = NilErr
            /\ Len(fret[c].val.items) = 0) =>
            /\ ret[c].val = NilVal
            /\ ret[c].err # NilErr
            /\ ret[c].err = NotFoundError(call[c].id)
            /\ ret[c] # FetchByIDResult(fret[c])

C11_Witness ==
    \E c \in Calls :
        /\ Done(c) /\ call[c].op = "GetASN" /\ call[c].id = 65536
        /\ resp[c].status = 200
        /\ resp[c].body = [kind |-> "envelope", elems |-> <<>>, cut |-> FALSE]
        /\ fret[c] = Result(Slice(<<>>), NilErr)
        /\ ret[c].val = NilVal /\ ret[c].err # NilErr

\* C12 as claimed: GetASN returns a network and no error only when the
\* query filtered by asn returned exactly one record.
C12_ExactlyOneMatch ==
    \A c \in Calls :
        (Done(c) /\ call[c].op = "GetASN" /\ ret[c].err = NilErr /\ ~ret[c].val.isNil) =>
            Len(fret[c].val.items) = 1

\* fetch built the request of the call
Built(c) == req[c] # NoRequest /\ call[c].op # "formatURL"

\* C13: every request of fetch carries the header Authorization, with the
\* single value "Api-Key <key>", if and only if the configuration holds a
\* key that is not empty; without a key it has no Authorization header.
C13_AuthorizationIffKey ==
    \A c \in Calls :
        Built(c) =>
            /\ "Authorization" \in DOMAIN req[c].header <=> api.apiKey # ""
            /\ api.apiKey # "" =>
                   req[c].header["Authorization"] = <<"Api-Key " \o api.apiKey>>

C13_Witness ==
    \E c \in Calls :
        /\ pc[c] = "sent" /\ api.apiKey = "secret-key"
        /\ req[c].header["Authorization"] = <<"Api-Key secret-key">>

\* the call went through formatURL, not through fetch
Legacy(c) == call[c].op = "formatURL"
\* the search parameters the URL of the call was built of
SearchOf(c) == CallSearch(call[c].op, call[c].search, call[c].id)

\* the pairs "k=v" of the map m, the keys taken in alphabetical order
RECURSIVE PairsByKey(_, _, _)
PairsByKey(m, i, legacy) ==
    IF i > Len(KeyOrder) THEN <<>>
    ELSE LET k == KeyOrder[i] IN
         (IF k \notin DOMAIN m THEN <<>>
          ELSE IF legacy THEN <<k \o "=" \o QueryEscape(Sprint(m[k]))>>
          ELSE [j \in 1..Len(m[k]) |-> QueryEscape(k) \o "=" \o QueryEscape(m[k][j])])
             \o PairsByKey(m, i + 1, legacy)

Pairs(c) == PairsByKey(SearchOf(c).m, 1, Legacy(c))

\* the strings ss joined, sep between them
RECURSIVE Join(_, _)
Join(ss, sep) ==
    IF ss = <<>> THEN ""
    ELSE IF Len(ss) = 1 THEN ss[1]
    ELSE ss[1] \o sep \o Join(Tail(ss), sep)

\* each of the strings ss preceded by "&"
RECURSIVE Segments(_)
Segments(ss) == IF ss = <<>> THEN "" ELSE "&" \o Head(ss) \o Segments(Tail(ss))

\* the encoding of the search of the call, had the range over the map
\* given the keys in the order o
QueryInOrder(c, o) ==
    IF Legacy(c) THEN formatSearchParameters(SearchOf(c), o)
    ELSE RequestQuery(SearchOf(c), o)

\* C14: the encoded query is the same whatever the order in which the
\* map gives its keys (a map holds no insertion order), and it holds the
\* pairs sorted alphabetically by key: formatSearchParameters gives each
\* pair preceded by "&", Encode gives the pairs joined by "&".
C14_SortedByKey ==
    \A c \in Calls :
        req[c] # NoRequest =>
            /\ \A o \in Orders(SearchOf(c).m) : QueryInOrder(c, o) = req[c].query
            /\ req[c].query = IF Legacy(c) THEN Segments(Pairs(c))
                                ELSE Join(Pairs(c), "&")

C14_Witness ==
    \E c \in Calls :
        /\ Legacy(c) /\ DOMAIN call[c].search.m = {"id", "asn"}
        /\ call[c].ord = <<"id", "asn">>
        /\ req[c].query = "&asn=65536&id=10"

\* C15: a nil mapping and an empty mapping are both encoded as the empty
\* string, and the URL built of either is exactly {base}{namespace}?depth=1.
C15_NilAndEmpty ==
    /\ Encode(NilSearch, <<>>) = "" /\ Encode(MakeSearch(NoValues), <<>>) = ""
    /\ formatSearchParameters(NilSearch, <<>>) = ""
    /\ formatSearchParameters(MakeSearch(NoValues), <<>>) = ""
    /\ \A c \in Calls :
           (req[c] # NoRequest /\ LenSearch(SearchOf(c)) = 0) =>
               /\ req[c].query = ""
               /\ req[c].url = api.url \o call[c].ns \o "?depth=1"

C15_Witness ==
    \E c \in Calls :
        /\ pc[c] = "sent" /\ call[c].op = "fetch"
        /\ call[c].search = MakeSearch(NoValues)
        /\ api.url = customURL /\ call[c].ns = networkNamespace
        /\ req[c].url = "http://host/api/net?depth=1"

\* every key of the mapping has a value: the mappings from a name to a
\* value (formatURL), or to one value or more (fetch)
EveryKeyHasValue(c) ==
    Legacy(c) \/ \A k \in DOMAIN SearchOf(c).m : SearchOf(c).m[k] # <<>>

\* C16: for every base, namespace and mapping from names to values, the
\* URL is the base as it is, then the namespace, then "?depth=1", then
\* each encoded parameter preceded by "&".
C16_URLComposition ==
    \A c \in Calls :
        (req[c] # NoRequest /\ EveryKeyHasValue(c)) =>
            req[c].url = api.url \o call[c].ns \o "?depth=1" \o Segments(Pairs(c))

C16_Witness ==
    \E c \in Calls :
        /\ pc[c] = "sent" /\ call[c].op = "fetch"
        /\ call[c].search = MakeSearch([k \in {"id"} |-> <<"10">>])
        /\ api.url = customURL /\ call[c].ns = networkNamespace
        /\ req[c].url = "http://host/api/net?depth=1&id=10"

\* the values the map m holds
ValuesOf(m) == UNION {{m[k][j] : j \in 1..Len(m[k])} : k \in DOMAIN m}

\* the complete segments "k=v" that can be made of the keys of the model
\* and the values of the map m
SegmentsOf(m) ==
    {QueryEscape(KeyOrder[i]) \o "=" \o QueryEscape(v) :
        i \in 1..Len(KeyOrder), v \in ValuesOf(m)}

\* the URLs {base}{namespace}?depth=1[&k=v]* of n segments at most
WireFormat(base, namespace, segs, n) ==
    {base \o namespace \o "?depth=1" \o Segments(ss) : ss \in SeqsUpTo(segs, n)}

\* C17 as claimed: for every mapping a caller can pass, also one that has
\* a key with no value, the URL fetch requests is {base}{namespace}?depth=1
\* followed by complete segments "&k=v" (as many as the mapping has values
\* at most): no "&" is left dangling and no segment is empty.
C17_WireFormat ==
    \A c \in Calls :
        Built(c) =>
            req[c].url \in WireFormat(api.url, call[c].ns, SegmentsOf(SearchOf(c).m),
                                      Cardinality(DOMAIN SearchOf(c).m)
                                          + Cardinality(ValuesOf(SearchOf(c).m)))

\* the argument of the last of the first n options of os that is named
\* name, and default if there is none
LastArg(os, n, name, default) ==
    LET I == {i \in 1..n : os[i].opt = name} IN
        IF I = {} THEN default
        ELSE os[CHOOSE i \in I : \A j \in I : j <= i].arg

\* C18: NewAPI applies its options in order on the defaults (the public
\* root as base URL, no API key, the default client): after any number of
\* turns of its loop, and so when it returns, each field holds the value
\* of the last option applied that targets it, and its default if none
\* does.
C18_LastOptionWins ==
    apc = "loop" =>
        /\ api.url = LastArg(opts, nopt, "WithURL", "https://www.peeringdb.com/api/")
        /\ api.apiKey = LastArg(opts, nopt, "WithAPIKey", "")
        /\ api.client = LastArg(opts, nopt, "WithHTTPClient", "default")

C18_Witness ==
    /\ apc = "loop" /\ nopt = Len(opts)
    /\ opts = <<WithAPIKey("secret-key"), WithAPIKey("")>>
    /\ api = [url |-> "https://www.peeringdb.com/api/", apiKey |-> "", client |-> "default"]

\* C19: once NewAPI has returned, no step of any call, alone or among the
\* steps of other calls, failing or not, changes a field of the
\* configuration; and the request of every call is built of the
\* configuration as it is.
C19_ConfigurationIsReadOnly ==
    /\ [][apc = "ready" => /\ api'.url = api.url
                            /\ api'.apiKey = api.apiKey
                            /\ api'.client = api.client]_vars
    /\ [](\A c \in Calls :
             Built(c) => /\ req[c].header = RequestHeader(api)
                         /\ req[c].url = RequestURL(api, call[c].ns, SearchOf(c),
                                                     call[c].ord))

C19_Witness ==
    /\ apc = "ready" /\ api.apiKey = "secret-key"
    /\ Done(1) /\ call[1].op = "fetch" /\ fret[1].err = NilErr
    /\ Done(2) /\ call[2].op = "fetchByID" /\ Is(fret[2].err, ErrQueryingAPI)
    /\ \A c \in Calls : req[c].header["Authorization"] = <<"Api-Key secret-key">>

\* what fetch returns to a call that no cancellation touches: the result
\* its own response gives, or the query error of its own network failure
Undisturbed(c) ==
    IF resp[c].got = "error"
    THEN /\ resp[c].cause \in NetCauses
         /\ fret[c] = Result(NilVal, Wrap2(ErrQueryingAPI, DoError(resp[c].cause)))
    ELSE /\ ~resp[c].body.cut
         /\ fret[c] = FetchResponse(resp[c].status, resp[c].body)

\* C20: when calls run concurrently on one configuration and the context
\* of one is cancelled, every call whose own context is not cancelled
\* ends as its own response (or network failure) has it: no
\* context.Canceled reaches it.
C20_CancellationIsPerCall ==
    \A c \in Calls :
        (Done(c) /\ nreq[c] = 1 /\ ~cancelled[c]) =>
            /\ Undisturbed(c)
            /\ ~Is(fret[c].err, ContextCanceled)
            /\ ContextCanceled.kind \notin fret[c].err.chain

C20_Witness ==
    \E c, d \in Calls :
        /\ c # d
        /\ Done(c) /\ cancelled[c] /\ resp[c].cause = ContextCanceled.kind
        /\ Is(fret[c].err, ErrQueryingAPI)
        /\ Done(d) /\ ~cancelled[d] /\ resp[d].status = 200
        /\ fret[d] = Result(Slice(<<1>>), NilErr)

\* the call returned: what it returned is in ret, and in fret if it went
\* through fetch
Returned(r) == r # NoResult

\* C21: no value comes with an error.  Whenever fetch, fetchByID or
\* GetASN returns an error that is not nil, the value it returns is nil,
\* also when the decoding failed after it had decoded some records.
C21_NoValueWithError ==
    \A c \in Calls :
        Done(c) =>
            /\ (Returned(fret[c]) /\ fret[c].err # NilErr) => fret[c].val = NilVal
            /\ (Returned(ret[c]) /\ ret[c].err # NilErr) => ret[c].val = NilVal

C21_Witness ==
    \E c \in Calls :
        /\ Done(c) /\ call[c].op = "GetASN" /\ resp[c].status = 200
        /\ resp[c].body = [kind |-> "envelope", elems |-> <<JObject(1), JString>>,
                           cut |-> FALSE]
        /\ Decode(resp[c].body).data = Slice(<<1, 0>>)
        /\ fret[c].err.kind = "json.UnmarshalTypeError" /\ fret[c].val = NilVal
        /\ ret[c] = fret[c]

\* C22: no call sends a second request.  Every call of fetch, fetchByID,
\* the accessors and GetASN has called client.Do once at most, whatever
\* came of it, and exactly once if the transport answered or failed.
C22_AtMostOneRequest ==
    \A c \in Calls :
        /\ nreq[c] <= 1
        /\ pc[c] \in {"sent", "resp"} => nreq[c] = 1
        /\ (Done(c) /\ resp[c].got # "none") => nreq[c] = 1

C22_Witness ==
    \E c \in Calls :
        /\ Done(c) /\ call[c].op = "fetchByID"
        /\ resp[c].got = "error" /\ resp[c].cause = "timeout"
        /\ Is(ret[c].err, ErrQueryingAPI)
        /\ nreq[c] = 1

\* C23: whenever client.Do handed fetch a response, the body of the
\* response has been closed exactly once when fetch returns: on the rate
\* limit, on any other status that is not 200, on a failed decoding and
\* on success; and no body is closed before fetch returns.
C23_BodyClosedOnce ==
    \A c \in Calls :
        /\ Answered(c) => closes[c] = 1
        /\ ~Done(c) => closes[c] = 0

C23_Witness ==
    \E c \in Calls :
        /\ Answered(c) /\ resp[c].status = 200 /\ resp[c].body.cut
        /\ fret[c].err = ContextCanceled
        /\ closes[c] = 1

Sentinels == {ErrBuildingRequest, ErrQueryingAPI, ErrRateLimitExceeded, ErrInvalidID}

\* C24: fetchByID, the accessors GetX, GetAllX, GetXByID and GetASN return
\* every error of fetch as fetch returned it, so that errors.Is finds in
\* it what it finds in the error of fetch: ErrRateLimitExceeded,
\* ErrQueryingAPI, ErrBuildingRequest and the context's error.
C24_ErrorsUnchanged ==
    \A c \in Calls :
        (Done(c) /\ Returned(fret[c]) /\ fret[c].err # NilErr) =>
            /\ ret[c].err = fret[c].err
            /\ \A e \in Sentinels \cup {ContextCanceled} :
                   Is(ret[c].err, e) <=> Is(fret[c].err, e)

C24_Witness ==
    \E c \in Calls :
        /\ Done(c) /\ call[c].op = "fetchByID" /\ cancelled[c]
        /\ resp[c].cause = ContextCanceled.kind
        /\ Is(ret[c].err, ErrQueryingAPI) /\ Is(ret[c].err, ContextCanceled)

\* C25: GetAllX is GetX without parameters.  Its request goes to
\* {base}{namespace of X}?depth=1, and of two calls that met the same
\* response (or failure), one of GetAllX and one of GetX(nil) on the same
\* namespace, each sent the request the other sent and returned what the
\* other returned.
C25_GetAllIsGetNil ==
    /\ \A c \in Calls :
           (Built(c) /\ call[c].op = "GetAll") =>
               req[c].url = api.url \o call[c].ns \o "?depth=1"
    /\ \A c, d \in Calls :
           (/\ call[c].op = "GetAll"
            /\ call[d].op = "fetch" /\ call[d].search = NilSearch
            /\ call[d].ns = call[c].ns
            /\ Done(c) /\ Done(d) /\ resp[c] = resp[d]) =>
               req[c] = req[d] /\ fret[c] = fret[d] /\ ret[c] = ret[d]

C25_Witness ==
    \E c, d \in Calls :
        /\ call[c].op = "GetAll" /\ call[d].op = "fetch" /\ call[d].search = NilSearch
        /\ call[c].ns = organizationNamespace /\ call[d].ns = organizationNamespace
        /\ Done(c) /\ Done(d) /\ resp[c] = resp[d] /\ resp[c].status = 200
        /\ ret[c] = Result(Slice(<<1>>), NilErr) /\ ret[d] = ret[c]
        /\ req[c].url = api.url \o "org?depth=1"

\* C26: for every id > 0, the search fetchByID hands to fetch holds the
\* entry id and no other, its request goes to
\* {base}{namespace}?depth=1&id=<id in decimal>, and it is the one request
\* of the call: a call that returned has sent exactly one, unless the
\* request could not be built of the base URL.
C26_RequestByID ==
    \A c \in Calls :
        (call[c].op = "fetchByID" /\ call[c].id > 0) =>
            /\ DOMAIN SearchOf(c).m = {"id"}
            /\ Built(c) =>
                   /\ req[c].query = "id=" \o ToString(call[c].id)
                   /\ req[c].url = api.url \o call[c].ns \o "?depth=1&id="
                                       \o ToString(call[c].id)
            /\ pc[c] \in {"sent", "resp"} => nreq[c] = 1
            /\ (Done(c) /\ ~Is(fret[c].err, ErrBuildingRequest)) => nreq[c] = 1

C26_Witness ==
    \E c \in Calls :
        /\ Done(c) /\ call[c].op = "fetchByID" /\ call[c].id = 1
        /\ call[c].ns = organizationNamespace /\ api.url = customURL
        /\ req[c].url = "http://host/api/org?depth=1&id=1"
        /\ nreq[c] = 1 /\ ret[c] = Result(Slice(<<1>>), NilErr)

\* C27 as claimed: whatever options NewAPI was given, WithHTTPClient with
\* any argument among them, the configuration it returns holds a client
\* that is not nil, and every fetch made on it gets to invoke the
\* transport.
C27_ClientNeverNil ==
    /\ apc = "ready" => api.client # "nil"
    /\ \A c \in Calls : pc[c] # "panic"

\* the body holds a JSON object with a field data that is an array
DataIsSequence(b) == b.kind \in {"envelope", "envelope+trailing"}

\* C28 as claimed: fetch returns a nil error only if the body of the
\* response held a field data that is present and is a sequence; a body
\* without the field, or with data null or a single object, gives no
\* successful result.
C28_EnvelopeInvariant ==
    \A c \in Calls :
        (Answered(c) /\ fret[c].err = NilErr) => DataIsSequence(resp[c].body)

\* Reading a query back, as url.ParseQuery does on the server's side.
\* the pieces ts cut at every piece sep
RECURSIVE Split(_, _)
Split(ts, sep) ==
    IF ts = <<>> THEN <<<<>>>>
    ELSE LET rest == Split(Tail(ts), sep) IN
         IF Head(ts) = sep THEN <<<<>>>> \o rest
         ELSE <<<<Head(ts)>> \o rest[1]>> \o Tail(rest)

\* url.QueryUnescape on one piece
UnescapeChar(t) ==
    CASE t = "+" -> " "
      [] t = "%26" -> "&"
      [] t = "%3D" -> "="
      [] t = "%3F" -> "?"
      [] t = "%23" -> "#"
      [] t = "%2B" -> "+"
      [] t = "%25" -> "%"
      [] OTHER -> t

QueryUnescape(ts) == Flatten([i \in 1..Len(ts) |-> UnescapeChar(ts[i])])

\* the pair <<key, value>> of one segment: it is cut at its first "="
ParsePair(seg) ==
    LET eqs == {i \in 1..Len(seg) : seg[i] = "="}
        n == IF eqs = {} THEN Len(seg) + 1 ELSE CHOOSE i \in eqs : \A j \in eqs : i <= j
    IN  <<QueryUnescape(SubSeq(seg, 1, n - 1)), QueryUnescape(SubSeq(seg, n + 1, Len(seg)))>>

\* the pairs of the query ts, in their order; empty segments are skipped
ParseQuery(ts) ==
    LET segs == SelectSeq(Split(ts, "&"), LAMBDA seg : seg # <<>>)
    IN  [i \in 1..Len(segs) |-> ParsePair(segs[i])]

\* the query of the call in pieces
QueryChars(c) ==
    IF Legacy(c) THEN formatSearchParametersChars(SearchOf(c), call[c].ord)
    ELSE EncodeChars(SearchOf(c), call[c].ord)

\* the pairs <<key, value>> of the mapping of the call
PairsOf(c) ==
    LET m == SearchOf(c).m IN
        IF Legacy(c) THEN {<<k, Sprint(m[k])>> : k \in DOMAIN m}
        ELSE UNION {{<<k, m[k][j]>> : j \in 1..Len(m[k])} : k \in DOMAIN m}

\* the mapping of the call gives each of its names one value
ScalarValues(c) ==
    Legacy(c) \/ \A k \in DOMAIN SearchOf(c).m : Len(SearchOf(c).m[k]) = 1

\* C29 as claimed: for every mapping of names to scalar values, names and
\* values with "&", "=" or a space among them, the encoded query read
\* back as URL parameters gives exactly the pairs of the mapping, one for
\* each entry.
C29_QueryIsLossless ==
    \A c \in Calls :
        (req[c] # NoRequest /\ ScalarValues(c)) =>
            LET parsed == ParseQuery(QueryChars(c)) IN
                /\ Flatten(QueryChars(c)) = req[c].query
                /\ {parsed[i] : i \in 1..Len(parsed)} = PairsOf(c)
                /\ Len(parsed) = Cardinality(DOMAIN SearchOf(c).m)

\* the errors the decoding of a body ends with
DecoderErrors ==
    {"io.EOF", "io.ErrUnexpectedEOF", "json.SyntaxError", "json.UnmarshalTypeError",
     ContextCanceled.kind}

\* the kinds of outcome the result r of fetch belongs to
OutcomeKinds(r) ==
    {k \in {"success", "build", "query", "rate limit", "request", "decode"} :
        CASE k = "success" -> r.err = NilErr
          [] k = "build" -> Is(r.err, ErrBuildingRequest)
          [] k = "query" -> Is(r.err, ErrQueryingAPI)
          [] k = "rate limit" -> Is(r.err, ErrRateLimitExceeded)
          [] k = "request" -> IsRequestError(r.err)
          [] k = "decode" -> r.err.kind \in DecoderErrors}

\* C30: every fetch that returned ended in exactly one of the outcomes
\* success, build error, query error, rate limit, request error and
\* decode error (so no error is two of them), and the outcome is decided
\* in this order: the request cannot be built (and then none is sent),
\* the transport fails, the status is 429, the status is another error
\* status, the decoding fails.
C30_ExactlyOneOutcome ==
    \A c \in Calls :
        (Done(c) /\ Returned(fret[c])) =>
            LET ks == OutcomeKinds(fret[c])
                st == resp[c].status
            IN  /\ Cardinality(ks) = 1
                /\ "build" \in ks <=> resp[c].got = "none"
                /\ "build" \in ks => nreq[c] = 0 /\ req[c] = NoRequest
                /\ "query" \in ks <=> resp[c].got = "error"
                /\ resp[c].got = "response" =>
                       /\ "rate limit" \in ks <=> st = 429
                       /\ (st \notin 200..299 /\ st # 429) => "request" \in ks
                       /\ st = 200 =>
                              ks = IF Decode(resp[c].body).err # NilErr THEN {"decode"}
                                   ELSE {"success"}

C30_Witness ==
    \E c \in Calls :
        /\ Done(c) /\ call[c].op = "fetch" /\ api.url = badURL
        /\ OutcomeKinds(fret[c]) = {"build"}
        /\ nreq[c] = 0 /\ resp[c] = NoResponse

====
